---- MODULE Spec2Model ----
(***************************************************************************)
(* A model of the toolkit package (src/tools.go): the Tools configuration  *)
(* struct and its helper methods.  Strings are sequences of one-character  *)
(* strings; files are sequences of byte tokens; the filesystem, the open   *)
(* file handles and the outcome of the last call are the state.            *)
(***************************************************************************)
EXTENDS Integers, Sequences, FiniteSets, TLC

\* t: the Tools value; dirs, files: the filesystem; handles: the paths with a
\* file descriptor the package opened and has not closed; req: the call the
\* caller makes (its arguments); last: the outcome of the last call.
VARIABLES t, dirs, files, handles, req, last

vars == <<t, dirs, files, handles, req, last>>

(***************************************************************************)
(* Bounds of the model.                                                    *)
(***************************************************************************)
MaxSlugLen == 4
MaxRandomLen == 2
MaxParts == 2
MaxStored == 2
MaxBodyLen == 4

(***************************************************************************)
(* Generic helpers on sequences.                                           *)
(***************************************************************************)
Min(a, b) == IF a < b THEN a ELSE b

SeqsUpTo(S, n) == UNION {[1..k -> S] : k \in 0..n}

Range(s) == {s[i] : i \in 1..Len(s)}

NoErr == "nil"

(***************************************************************************)
(* The configuration: type Tools struct.                                   *)
(***************************************************************************)
DefaultMaxFileSize == 1073741824
DefaultMaxJSONSize == 1048576

Tools(mfs, aft, mjs, auf) ==
    [MaxFileSize |-> mfs, AllowedFileTypes |-> aft,
     MaxJSONSize |-> mjs, AllowUnknownFields |-> auf]

\* The configurations a caller sets up before calling: the zero value
\* (var testTools Tools) and the ones the tests configure.
Configs ==
    { Tools(0, <<>>, 0, FALSE),
      Tools(0, <<"image/jpeg">>, 2, TRUE),
      Tools(4096, <<"text/plain", "IMAGE/PNG">>, 3, FALSE),
      Tools(4096, <<"image/jpeg", "image/png">>, 3, TRUE) }

(***************************************************************************)
(* RandomString (tools.go:32-41).                                          *)
(***************************************************************************)
\* const randomStringSource, as the rune slice r.
randomStringSource ==
    << "a","b","c","d","e","f","g","h","i","j","k","l","m",
       "n","o","p","q","r","s","t","u","v","w","x","y","z",
       "A","B","C","D","E","F","G","H","I","J","K","L","M",
       "N","O","P","Q","R","S","T","U","V","W","X","Y","Z",
       "0","1","2","3","4","5","6","7","8","9","_","+" >>

\* rand.Prime(rand.Reader, len(r)): a prime of exactly len(r) = 64 bits.
\* Only x % y with y = len(r) = 64 is used of it, so the prime is
\* represented by its value modulo 64.  rand.Prime sets the lowest bit of
\* every candidate, and a 64-bit prime is odd: the residues are the odd
\* ones, and every odd residue class modulo 64 holds 64-bit primes.
PrimeResidues == {x \in 0..(Len(randomStringSource) - 1) : x % 2 = 1}

\* What rand.Reader yields to one call: the primes drawn, one per position.
RandomTapes(n) == [1..n -> PrimeResidues]

\* The bytes of the UTF-8 encoding of a rune: one for the ASCII runes.
RuneLen(c) == IF c \in {"JP", "KELVIN"} THEN 3 ELSE 1

RECURSIVE UTF8Len(_)
UTF8Len(s) == IF s = <<>> THEN 0 ELSE RuneLen(Head(s)) + UTF8Len(Tail(s))

RandomStringFromShort(n, tape) ==
    LET r == randomStringSource
        y == Len(r)
    IN  [i \in 1..(n - 1) |-> r[(tape[i] % y) + 1]]

\* s[i] = r[x%y] for each i in range s; string(s).
RandomStringFrom(n, tape) ==
    LET r == randomStringSource
        y == Len(r)
    IN  [i \in 1..n |-> r[(tape[i] % y) + 1]]

RandomString ==
    /\ req.op = "RandomString"
    /\ last' = [op |-> "RandomString", out |-> RandomStringFrom(req.n, req.rand)]
    /\ UNCHANGED <<t, dirs, files, handles, req>>

(***************************************************************************)
(* Slugify (tools.go:173-184).                                             *)
(***************************************************************************)
\* The characters of the inputs: ASCII letters of both cases, a digit, the
\* hyphen, a symbol, a Japanese rune and the Kelvin sign (U+212A).
SlugChars == {"a", "B", "7", "-", "!", "JP", "KELVIN"}

\* unicode.ToLower on one rune, as strings.ToLower applies it.
ToLowerRune(c) ==
    CASE c = "B" -> "b"
      [] c = "KELVIN" -> "k"
      [] OTHER -> c

ToLower(s) == [i \in 1..Len(s) |-> ToLowerRune(s[i])]

\* The character class [a-z\d] whose complement the regexp matches.
InClassAZ09(c) == c \in {"a", "b", "k", "7"}

RECURSIVE DropUnsafe(_)
DropUnsafe(s) ==
    IF s # <<>> /\ ~InClassAZ09(Head(s)) THEN DropUnsafe(Tail(s)) ELSE s

RECURSIVE ReplaceEachChar(_)
ReplaceEachChar(s) ==
    IF s = <<>> THEN <<>>
    ELSE IF InClassAZ09(Head(s))
         THEN <<Head(s)>> \o ReplaceEachChar(Tail(s))
         ELSE <<"-">> \o ReplaceEachChar(Tail(s))

\* regexp `[^a-z\d]+` ReplaceAllString(s, "-"): left to right, each
\* leftmost-longest match replaced by one hyphen.
RECURSIVE ReplaceAllString(_)
ReplaceAllString(s) ==
    IF s = <<>> THEN <<>>
    ELSE IF InClassAZ09(Head(s))
         THEN <<Head(s)>> \o ReplaceAllString(Tail(s))
         ELSE <<"-">> \o ReplaceAllString(DropUnsafe(Tail(s)))

RECURSIVE TrimLeft(_, _)
TrimLeft(s, c) ==
    IF s # <<>> /\ Head(s) = c THEN TrimLeft(Tail(s), c) ELSE s

RECURSIVE TrimRight(_, _)
TrimRight(s, c) ==
    IF s # <<>> /\ s[Len(s)] = c
    THEN TrimRight(SubSeq(s, 1, Len(s) - 1), c) ELSE s

\* strings.Trim(s, "-")
Trim(s, c) == TrimRight(TrimLeft(s, c), c)

ErrEmptyString == "empty string not permitted"
ErrEmptySlug == "after removing unsafe characters, slug is zero length"

SlugifyResult(s) ==
    IF s = <<>> THEN [slug |-> <<>>, err |-> ErrEmptyString]
    ELSE LET slug == Trim(ReplaceAllString(ToLower(s)), "-")
         IN  IF Len(slug) = 0
             THEN [slug |-> <<>>, err |-> ErrEmptySlug]
             ELSE [slug |-> slug, err |-> NoErr]

Slugify ==
    /\ req.op = "Slugify"
    /\ last' = [op |-> "Slugify", slug |-> SlugifyResult(req.s).slug,
                err |-> SlugifyResult(req.s).err]
    /\ UNCHANGED <<t, dirs, files, handles, req>>

(***************************************************************************)
(* CreateDirIfNotExist (tools.go:161-170).  A path is the sequence of its  *)
(* elements; dirs maps each directory to its mode, files each regular file *)
(* to its content.                                                         *)
(***************************************************************************)
DirMode == 493  \* const mode = 0755

Prefixes(path) == {SubSeq(path, 1, k) : k \in 0..Len(path)}

Exists(ds, fl, path) == path \in DOMAIN ds \/ path \in DOMAIN fl

\* os.Stat(path) fails with ENOENT (os.IsNotExist) when an element is
\* missing and every element before it is a directory; below a regular file
\* it fails with ENOTDIR, which os.IsNotExist does not accept.
StatIsNotExist(ds, fl, path) ==
    /\ ~Exists(ds, fl, path)
    /\ \A q \in Prefixes(path) : q \notin DOMAIN fl

\* os.MkdirAll(path, mode): path and every missing parent, each with mode.
MkdirAll(ds, path, mode) ==
    [q \in DOMAIN ds \cup Prefixes(path) |->
        IF q \in DOMAIN ds THEN ds[q] ELSE mode]

\* The directories after the call and its error; mkdirFails is the operating
\* system refusing the mkdir (permissions, a full disk).
CreateDirIfNotExistResult(ds, fl, path, mkdirFails) ==
    IF StatIsNotExist(ds, fl, path)
    THEN IF mkdirFails
         THEN [dirs |-> ds, err |-> "mkdir error"]
         ELSE [dirs |-> MkdirAll(ds, path, DirMode), err |-> NoErr]
    ELSE [dirs |-> ds, err |-> NoErr]

(***************************************************************************)
(* UploadFiles and UploadOneFile (tools.go:51-158).                        *)
(***************************************************************************)
SniffLen == 512       \* buff := make([]byte, 512)
RandomNameLen == 25   \* t.RandomString(25)

\* File contents are sequences of tokens: "PNG" and "JPG" stand for the
\* signatures http.DetectContentType knows, "d" for a byte of other data.
\* A file's size is counted in tokens.
PNGFile == <<"PNG", "d">>
JPGFile == <<"JPG">>
EmptyFile == <<>>

\* http.DetectContentType(buff) on the sniff buffer, which holds the bytes
\* read followed by zero bytes.
DetectContentType(buff) ==
    IF buff # <<>> /\ Head(buff) = "PNG" THEN "image/png"
    ELSE IF buff # <<>> /\ Head(buff) = "JPG" THEN "image/jpeg"
    ELSE "application/octet-stream"

\* Simple Unicode case folding of the MIME type strings of the model.
FoldCase(x) ==
    CASE x = "IMAGE/PNG" -> "image/png"
      [] x = "Image/Jpeg" -> "image/jpeg"
      [] OTHER -> x

\* strings.EqualFold
EqualFold(a, b) == FoldCase(a) = FoldCase(b)

IsAllowedCaseSensitive(allowedFileTypes, fileType) ==
    IF Len(allowedFileTypes) > 0
    THEN \E i \in 1..Len(allowedFileTypes) : fileType = allowedFileTypes[i]
    ELSE TRUE

\* tools.go:106-117: allowed := false; the loop over t.AllowedFileTypes.
IsAllowed(allowedFileTypes, fileType) ==
    IF Len(allowedFileTypes) > 0
    THEN \E i \in 1..Len(allowedFileTypes) :
            EqualFold(fileType, allowedFileTypes[i])
    ELSE TRUE

ExtNone(name) == <<>>

\* filepath.Ext: the suffix beginning at the final dot of the name.
Ext(name) ==
    LET dots == {i \in 1..Len(name) : name[i] = "."}
    IN  IF dots = {} THEN <<>>
        ELSE SubSeq(name, CHOOSE i \in dots : \A j \in dots : j <= i, Len(name))

ErrTooBig == "the uploaded file is too big"
ErrNotPermitted == "the uploaded file type is not permitted"
ErrEOF == "EOF"

\* The closure of tools.go:91-151 on one file header.  uploaded is the
\* closure's parameter; fl and hd are the files and the open descriptors
\* before it; fault is the step at which the operating system fails this
\* part ("none" when it does not), cut the number of tokens an interrupted
\* io.Copy has written, tape what rand.Reader yields.  The result holds the
\* closure's two return values and the filesystem it leaves.
UploadPart(uploaded, fl, hd, ds, cfg, hdr, uploadDir, renameFile, fault, cut, tape) ==
    LET content == hdr.content
        fail(e) == [uploadedFiles |-> <<>>, err |-> e, files |-> fl,
                    handles |-> hd, fileType |-> "", path |-> <<>>]
    IN
    IF fault = "open" THEN fail("open error")
    ELSE
    \* infile.Read(buff): io.EOF from an empty part
    IF fault = "read" THEN fail("read error")
    ELSE IF Len(content) = 0 THEN fail(ErrEOF)
    ELSE
    LET n == Min(SniffLen, Len(content))
        buff == SubSeq(content, 1, n)
        fileType == DetectContentType(buff)
        failT(e) == [fail(e) EXCEPT !.fileType = fileType]
    IN
    IF ~IsAllowed(cfg.AllowedFileTypes, fileType) THEN failT(ErrNotPermitted)
    ELSE IF fault = "seek" THEN failT("seek error")
    ELSE
    LET pos == 0    \* infile.Seek(0, 0)
        newFileName == IF renameFile
                       THEN RandomStringFrom(RandomNameLen, tape) \o Ext(hdr.Filename)
                       ELSE hdr.Filename
        path == Append(uploadDir, newFileName)   \* filepath.Join
        failP(e) == [failT(e) EXCEPT !.path = path]
    IN
    \* os.Create: the directory must be one; an existing file is truncated.
    \* defer outfile.Close() ran on the nil outfile: the descriptor that
    \* os.Create returns is never closed by the closure.
    IF fault = "create" \/ uploadDir \notin DOMAIN ds \/ path \in DOMAIN ds
    THEN failP("create error")
    ELSE
    LET hd2 == hd \cup {path}
        put(c) == [q \in DOMAIN fl \cup {path} |-> IF q = path THEN c ELSE fl[q]]
    IN
    IF fault = "copy"
    THEN [failP("copy error") EXCEPT !.files = put(SubSeq(content, pos + 1, pos + cut)),
                                     !.handles = hd2]
    ELSE
    LET copied == SubSeq(content, pos + 1, Len(content))
        uploadedFile == [NewFileName |-> newFileName,
                         OriginalFileName |-> hdr.Filename,
                         FileSize |-> Len(copied)]
    IN  [uploadedFiles |-> Append(uploaded, uploadedFile), err |-> NoErr,
         files |-> put(copied), handles |-> hd2,
         fileType |-> fileType, path |-> path]

\* The loops of tools.go:89-156 from the k-th file header on.  st holds
\* uploadedFiles, the filesystem, and trace: what became of each part the
\* loop has processed.  c holds what the loop reads and does not change.
\* The order of the parts is the order in which the map r.MultipartForm.File
\* and its slices are ranged over.
\* The state of the loop after the closure returned res for the k-th part:
\* uploadedFiles, err = func(uploadedFiles) {...}(uploadedFiles).
AfterPart(st, k, c, res) ==
    [uploadedFiles |-> res.uploadedFiles, err |-> res.err,
     files |-> res.files, handles |-> res.handles,
     trace |-> Append(st.trace,
                      [Filename |-> c.parts[k].Filename,
                       content |-> c.parts[k].content,
                       fileType |-> res.fileType,
                       path |-> res.path, err |-> res.err])]

RECURSIVE UploadLoop(_, _, _)
UploadLoop(st, k, c) ==
    IF k > Len(c.parts) THEN [st EXCEPT !.err = NoErr]
    ELSE CHOOSE out \in
            { IF st2.err # NoErr
              THEN st2          \* return uploadedFiles, err
              ELSE UploadLoop(st2, k + 1, c) :
                st2 \in { AfterPart(st, k, c, res) :
                    res \in { UploadPart(st.uploadedFiles, st.files,
                                  st.handles, c.dirs, c.cfg, c.parts[k],
                                  c.uploadDir, c.renameFile,
                                  IF c.env.faultAt = k THEN c.env.fault
                                  ELSE "none",
                                  c.env.cut, c.env.tapes[k]) } } } : TRUE

\* UploadFiles(r, uploadDir, rename...): the Tools value, the filesystem and
\* the two return values it leaves.  env is what the operating system and
\* rand.Reader do during the call.
UploadFilesResult(cfg, ds, fl, hd, r, uploadDir, rename, env) ==
    LET renameFile == IF Len(rename) > 0 THEN rename[1] ELSE TRUE
        cfg2 == IF cfg.MaxFileSize = 0
                THEN [cfg EXCEPT !.MaxFileSize = DefaultMaxFileSize]
                ELSE cfg
        mk == CreateDirIfNotExistResult(ds, fl, uploadDir, env.mkdirFails)
        early(e) == [t |-> cfg2, dirs |-> mk.dirs, files |-> fl, handles |-> hd,
                     uploadedFiles |-> <<>>, err |-> e, trace |-> <<>>]
    IN  IF mk.err # NoErr THEN early(mk.err)
        ELSE IF ~r.wellFormed THEN early(ErrTooBig)
        ELSE LET out == UploadLoop([uploadedFiles |-> <<>>, err |-> NoErr,
                                    files |-> fl, handles |-> hd, trace |-> <<>>],
                                   1,
                                   [parts |-> r.parts, dirs |-> mk.dirs,
                                    cfg |-> cfg2, uploadDir |-> uploadDir,
                                    renameFile |-> renameFile, env |-> env])
             IN  [t |-> cfg2, dirs |-> mk.dirs, files |-> out.files,
                  handles |-> out.handles, uploadedFiles |-> out.uploadedFiles,
                  err |-> out.err, trace |-> out.trace]

\* The tapes rand.Reader yields for file names: the model draws them from
\* two constant runs.
NameTapes == {[i \in 1..RandomNameLen |-> x] : x \in {1, 63}}

\* Whether the operating system refuses the mkdir, where there is one.
MkdirEnvs(ds, fl, path) ==
    IF StatIsNotExist(ds, fl, path) THEN BOOLEAN ELSE {FALSE}

\* What the environment may do during an upload of these parts.
UploadEnvs(ds, fl, rq) ==
    LET parts == rq.r.parts
        rename == rq.rename
        tapeSets == IF rename = <<FALSE>>
                    THEN {[k \in 1..Len(parts) |-> CHOOSE x \in NameTapes : TRUE]}
                    ELSE [1..Len(parts) -> NameTapes]
        faults == {[faultAt |-> 0, fault |-> "none", cut |-> 0]}
                  \cup {[faultAt |-> k, fault |-> f, cut |-> 0] :
                          k \in 1..Len(parts),
                          f \in {"open", "read", "seek", "create"}}
                  \cup UNION {{[faultAt |-> k, fault |-> "copy", cut |-> n] :
                                 n \in 0..(Len(parts[k].content) - 1)} :
                              k \in 1..Len(parts)}
    IN  {[mkdirFails |-> m, faultAt |-> f.faultAt, fault |-> f.fault,
          cut |-> f.cut, tapes |-> tp] :
            m \in MkdirEnvs(ds, fl, rq.uploadDir), f \in faults, tp \in tapeSets}

\* The files below the upload directories: what MaxStored bounds.
StoredCount(fl) == Cardinality({q \in DOMAIN fl : Len(q) > 1})

UploadFiles ==
    /\ req.op = "Upload"
    /\ StoredCount(files) + Len(req.r.parts) <= MaxStored
    /\ \E env \in UploadEnvs(dirs, files, req) :
        \E out \in {UploadFilesResult(t, dirs, files, handles, req.r,
                                      req.uploadDir, req.rename, env)} :
              /\ t' = out.t
              /\ dirs' = out.dirs
              /\ files' = out.files
              /\ handles' = out.handles
              /\ last' = [op |-> "UploadFiles", outcome |-> "return",
                          files |-> out.uploadedFiles, err |-> out.err,
                          trace |-> out.trace]
    /\ UNCHANGED req

\* UploadOneFile(r, uploadDir, rename...): files[0] of an empty list is an
\* index out of range, a run-time panic.
UploadOneFile ==
    /\ req.op = "Upload"
    /\ StoredCount(files) + Len(req.r.parts) <= MaxStored
    /\ \E env \in UploadEnvs(dirs, files, req) :
        \E renameFile \in {IF Len(req.rename) > 0 THEN req.rename[1] ELSE TRUE} :
        \E out \in {UploadFilesResult(t, dirs, files, handles, req.r,
                                      req.uploadDir, <<renameFile>>, env)} :
              /\ t' = out.t
              /\ dirs' = out.dirs
              /\ files' = out.files
              /\ handles' = out.handles
              /\ last' =
                    IF out.err # NoErr
                    THEN [op |-> "UploadOneFile", outcome |-> "return",
                          files |-> <<>>, err |-> out.err, trace |-> out.trace]
                    ELSE IF Len(out.uploadedFiles) = 0
                    THEN [op |-> "UploadOneFile", outcome |-> "panic",
                          files |-> <<>>, err |-> NoErr, trace |-> out.trace]
                    ELSE [op |-> "UploadOneFile", outcome |-> "return",
                          files |-> <<out.uploadedFiles[1]>>, err |-> NoErr,
                          trace |-> out.trace]
    /\ UNCHANGED req

\* The argument of a call of CreateDirIfNotExist: the path of the request,
\* or the upload directory of an upload request.
CreateDirPath == IF req.op = "Upload" THEN req.uploadDir ELSE req.path

\* CreateDirIfNotExist(path)
CreateDirIfNotExist ==
    /\ req.op \in {"Upload", "CreateDir"}
    /\ \E mkdirFails \in MkdirEnvs(dirs, files, CreateDirPath) :
        \E out \in {CreateDirIfNotExistResult(dirs, files, CreateDirPath, mkdirFails)} :
              /\ dirs' = out.dirs
              /\ last' = [op |-> "CreateDirIfNotExist", err |-> out.err]
    /\ UNCHANGED <<t, files, handles, req>>

(***************************************************************************)
(* ReadJSON (tools.go:202-253).  A body is a sequence of tokens, each one  *)
(* byte long in the model: "ws" white space, "{" and "}", and the members  *)
(* of an object: "k" for "foo":"bar" (a field of the target, of its type), *)
(* "t" for "foo":1 (the field with a value of the wrong type), "u" for     *)
(* "alpha":"bar" (no field of the target); "x" is a byte that fits no JSON *)
(* text.                                                                   *)
(***************************************************************************)
JSONTokens == {"ws", "{", "}", "k", "t", "u", "x"}

JSONMembers == {"k", "t", "u"}

\* http.MaxBytesReader(w, r.Body, maxBytes): the bytes a reader gets, and
\* the error it meets once it has read them all.
MaxBytesData(body, maxBytes) == SubSeq(body, 1, Min(Len(body), maxBytes))

ErrBodyTooLarge == "http: request body too large"

MaxBytesEnd(body, maxBytes) ==
    IF Len(body) > maxBytes THEN ErrBodyTooLarge ELSE "EOF"

\* The scanner of encoding/json over data from position i (1-based) in
\* state st: "begin" before the value, "obj" after the brace, "member"
\* after the object's member.  It ends after the closing brace ("end"),
\* at a byte no JSON text has there ("error"), or at the end of the data
\* ("more").
RECURSIVE Scan(_, _, _)
Scan(data, i, st) ==
    IF i > Len(data) THEN [kind |-> "more", pos |-> i]
    ELSE LET c == data[i]
         IN  IF c = "ws" THEN Scan(data, i + 1, st)
             ELSE IF st = "begin"
             THEN IF c = "{" THEN Scan(data, i + 1, "obj")
                  ELSE [kind |-> "error", pos |-> i]
             ELSE IF st = "obj" /\ c \in JSONMembers
             THEN Scan(data, i + 1, "member")
             ELSE IF c = "}" THEN [kind |-> "end", pos |-> i]
             ELSE [kind |-> "error", pos |-> i]

\* nonSpace(dec.buf)
NonSpace(buf) == \E i \in 1..Len(buf) : buf[i] # "ws"

\* Decoder.readValue from scanp (the bytes consumed so far), the reader
\* ending with endErr: the buffered bytes are scanned before the reader's
\* error is looked at.
ReadValue(data, scanp, endErr) ==
    LET sc == Scan(data, scanp + 1, "begin")
    IN  IF sc.kind = "end" THEN [err |-> NoErr, scanp |-> sc.pos]
        ELSE IF sc.kind = "error" THEN [err |-> "SyntaxError", scanp |-> scanp]
        ELSE IF endErr = "EOF"
        THEN IF NonSpace(SubSeq(data, scanp + 1, Len(data)))
             THEN [err |-> "ErrUnexpectedEOF", scanp |-> scanp]
             ELSE [err |-> "EOF", scanp |-> scanp]
        ELSE [err |-> endErr, scanp |-> scanp]

\* The decoding of the value's text into a target with these fields.
Unmarshal(value, targetOK, fields, disallowUnknownFields) ==
    IF ~targetOK THEN "InvalidUnmarshalError"
    ELSE IF \E i \in 1..Len(value) : value[i] = "t" /\ "foo" \in fields
    THEN "UnmarshalTypeError"
    ELSE IF /\ disallowUnknownFields
            /\ \E i \in 1..Len(value) :
                  \/ value[i] = "u"
                  \/ value[i] \in {"k", "t"} /\ "foo" \notin fields
    THEN "json: unknown field"
    ELSE NoErr

\* dec.Decode(v): the decoder's position after it and its error.
Decode(data, scanp, endErr, targetOK, fields, disallowUnknownFields) ==
    LET rv == ReadValue(data, scanp, endErr)
    IN  IF rv.err # NoErr THEN rv
        ELSE [err |-> Unmarshal(SubSeq(data, scanp + 1, rv.scanp), targetOK,
                                fields, disallowUnknownFields),
              scanp |-> rv.scanp]

ErrBadlyFormedAt == "body contains badly-formed JSON (at character)"
ErrBadlyFormed == "body contains badly-formed JSON"
ErrIncorrectType == "body contains incorrect JSON type for field"
ErrEmptyBody == "body must not be empty"
ErrUnknownKey == "body contains unknown key"
ErrTooLarge == "body must not be larger than %d bytes"
ErrUnmarshal == "error unmarshaling JSON"
ErrOneValue == "body must contain only one JSON value"

\* The switch of tools.go:223-244.
ClassifyDecodeError(err) ==
    CASE err = "SyntaxError" -> ErrBadlyFormedAt
      [] err = "ErrUnexpectedEOF" -> ErrBadlyFormed
      [] err = "UnmarshalTypeError" -> ErrIncorrectType
      [] err = "EOF" -> ErrEmptyBody
      [] err = "json: unknown field" -> ErrUnknownKey
      [] err = ErrBodyTooLarge -> ErrTooLarge
      [] err = "InvalidUnmarshalError" -> ErrUnmarshal
      [] OTHER -> err

ReadJSONResultOneDecode(cfg, body, targetOK) ==
    LET maxBytes == IF cfg.MaxJSONSize # 0 THEN cfg.MaxJSONSize
                    ELSE DefaultMaxJSONSize
        first == Decode(MaxBytesData(body, maxBytes), 0,
                        MaxBytesEnd(body, maxBytes), targetOK, {"foo"},
                        ~cfg.AllowUnknownFields)
    IN  [err |-> ClassifyDecodeError(first.err), limit |-> maxBytes]

\* ReadJSON(w, r, data) with the body of r; targetOK: data is a non-nil
\* pointer, to a struct with the one field foo.  The result is the error
\* and the %d of its message (maxBytes).
ReadJSONResult(cfg, body, targetOK) ==
    LET maxBytes == IF cfg.MaxJSONSize # 0 THEN cfg.MaxJSONSize
                    ELSE DefaultMaxJSONSize
        data == MaxBytesData(body, maxBytes)
        endErr == MaxBytesEnd(body, maxBytes)
        first == Decode(data, 0, endErr, targetOK, {"foo"},
                        ~cfg.AllowUnknownFields)
        second == Decode(data, first.scanp, endErr, TRUE, {},
                         ~cfg.AllowUnknownFields)
    IN  IF first.err # NoErr
        THEN [err |-> ClassifyDecodeError(first.err), limit |-> maxBytes]
        ELSE IF second.err # "EOF"
        THEN [err |-> ErrOneValue, limit |-> maxBytes]
        ELSE [err |-> NoErr, limit |-> maxBytes]

ReadJSON ==
    /\ req.op = "ReadJSON"
    /\ \E out \in {ReadJSONResult(t, req.body, req.targetOK)} :
          last' = [op |-> "ReadJSON", err |-> out.err, limit |-> out.limit]
    /\ UNCHANGED <<t, dirs, files, handles, req>>

(***************************************************************************)
(* PushJSONToRemote (tools.go:294-323).                                    *)
(***************************************************************************)
\* What httpClient.Do meets: the transport failing, or the status code of
\* the answer.
Transports ==
    {[failed |-> TRUE, StatusCode |-> 0]}
    \cup {[failed |-> FALSE, StatusCode |-> c] : c \in {200, 201, 404, 503}}

\* json.Marshal(data) fails on a value with no JSON encoding (a channel).
Marshals(data) == data # "chan"

\* http.NewRequest parses the uri.
ParsesAsURL(uri) == uri # "%zz"

\* The three return values; a response is its status code and whether its
\* body is still open.  The deferred response.Body.Close() has run when the
\* caller gets the response.
PushJSONToRemoteResult(uri, data, tr) ==
    IF ~Marshals(data)
    THEN [response |-> <<>>, status |-> 0, err |-> "marshal error"]
    ELSE IF ~ParsesAsURL(uri)
    THEN [response |-> <<>>, status |-> 0, err |-> "request error"]
    ELSE IF tr.failed
    THEN [response |-> <<>>, status |-> 0, err |-> "transport error"]
    ELSE [response |-> <<[StatusCode |-> tr.StatusCode, bodyOpen |-> FALSE]>>,
          status |-> tr.StatusCode, err |-> NoErr]

PushJSONToRemote ==
    /\ req.op = "PushJSONToRemote"
    /\ \E tr \in Transports :
       \E out \in {PushJSONToRemoteResult(req.uri, req.data, tr)} :
          last' = [op |-> "PushJSONToRemote", response |-> out.response,
                   status |-> out.status, err |-> out.err]
    /\ UNCHANGED <<t, dirs, files, handles, req>>

(***************************************************************************)
(* WriteJSON and ErrorJSON (tools.go:256-290).  The writer is the response *)
(* recorder of the tests: its header map, the status code and the header   *)
(* it has sent, and its body.  A header is a function from keys to values. *)
(***************************************************************************)
ContentType == "Content-Type"
ApplicationJSON == "application/json"
StatusBadRequest == 400

\* textproto.CanonicalMIMEHeaderKey on the keys of the model.
CanonicalHeaderKey(key) ==
    CASE key = "content-type" -> ContentType
      [] key = "FOO" -> "Foo"
      [] OTHER -> key

\* w.Header()[key] = value: the key is stored as it is given.
HeaderAssign(h, key, value) ==
    [k \in DOMAIN h \cup {key} |-> IF k = key THEN value ELSE h[k]]

\* http.Header.Set: the canonical key gets the single value.
HeaderSet(h, key, value) == HeaderAssign(h, CanonicalHeaderKey(key), <<value>>)

\* http.Header.Get: the first value of the canonical key.
HeaderGet(h, key) ==
    IF CanonicalHeaderKey(key) \in DOMAIN h /\ h[CanonicalHeaderKey(key)] # <<>>
    THEN h[CanonicalHeaderKey(key)][1]
    ELSE ""

\* The range over headers[0] of tools.go:263-265; the keys differ, so the
\* order of the range does not show in the header.
HeaderAssignAll(h, extra) ==
    [k \in DOMAIN h \cup DOMAIN extra |-> IF k \in DOMAIN extra THEN extra[k] ELSE h[k]]

\* w.WriteHeader(code): the first call fixes the code and the header sent.
WriteHeader(w, code) ==
    IF w.wroteHeader THEN w
    ELSE [w EXCEPT !.Code = code, !.wroteHeader = TRUE, !.sent = w.header]

\* w.Write(buf): sends the header with 200 if none was sent.
Write(w, buf) ==
    [WriteHeader(w, 200) EXCEPT !.Body = w.Body \o buf]

\* The escapes json.Marshal writes inside a string: the quote, and the
\* characters that are unsafe in HTML.
EscapeRune(c) ==
    CASE c = "<" -> "\\u003c"
      [] c = "\"" -> "\\\""
      [] OTHER -> c

EscapeString(s) == [i \in 1..Len(s) |-> EscapeRune(s[i])]

\* json.Marshal of a JSONResponse (tools.go:194-198): the members in the
\* order of the fields, Data left out when nil (omitempty).  Each member is
\* its key and the tokens of its value.  A channel in Data has no encoding.
MarshalFails(data) == data.Data = "chan"

Marshal(data) ==
    << [key |-> "error", val |-> <<IF data.Error THEN "true" ELSE "false">>],
       [key |-> "message", val |-> <<"\"">> \o EscapeString(data.Message) \o <<"\"">>] >>
    \o IF data.Data = "nil" THEN <<>>
       ELSE << [key |-> "data", val |-> <<"\"", data.Data, "\"">>] >>

WriteJSONResultHeadersLast(w, status, data, headers, writeFails) ==
    IF MarshalFails(data) THEN [w |-> w, err |-> "marshal error", calls |-> <<>>]
    ELSE
    LET w1 == [w EXCEPT !.header = HeaderSet(w.header, ContentType, ApplicationJSON)]
        w2 == IF Len(headers) > 0
              THEN [w1 EXCEPT !.header = HeaderAssignAll(w1.header, headers[1])]
              ELSE w1
        c1 == IF Len(headers) > 0 THEN <<"Header[key] = value">> ELSE <<>>
        w3 == WriteHeader(w2, status)
    IN  IF writeFails
        THEN [w |-> w3, err |-> "write error",
              calls |-> <<"Header.Set">> \o c1 \o <<"WriteHeader", "Write">>]
        ELSE [w |-> Write(w3, Marshal(data)), err |-> NoErr,
              calls |-> <<"Header.Set">> \o c1 \o <<"WriteHeader", "Write">>]

\* WriteJSON(w, status, data, headers...): the writer it leaves, its error
\* and the calls it made on the writer, in their order.  writeFails is the
\* connection refusing the body.
WriteJSONResult(w, status, data, headers, writeFails) ==
    IF MarshalFails(data) THEN [w |-> w, err |-> "marshal error", calls |-> <<>>]
    ELSE
    LET w1 == IF Len(headers) > 0
              THEN [w EXCEPT !.header = HeaderAssignAll(w.header, headers[1])]
              ELSE w
        c1 == IF Len(headers) > 0 THEN <<"Header[key] = value">> ELSE <<>>
        w2 == [w1 EXCEPT !.header = HeaderSet(w1.header, ContentType, ApplicationJSON)]
        w3 == WriteHeader(w2, status)
    IN  IF writeFails
        THEN [w |-> w3, err |-> "write error",
              calls |-> c1 \o <<"Header.Set", "WriteHeader", "Write">>]
        ELSE [w |-> Write(w3, Marshal(data)), err |-> NoErr,
              calls |-> c1 \o <<"Header.Set", "WriteHeader", "Write">>]

\* ErrorJSON(w, err, status...): the envelope of the error, written with
\* the status given or 400.
ErrorJSONResult(w, err, status, writeFails) ==
    LET statusCode == IF Len(status) > 0 THEN status[1] ELSE StatusBadRequest
        payload == [Error |-> TRUE, Message |-> err, Data |-> "nil"]
    IN  WriteJSONResult(w, statusCode, payload, <<>>, writeFails)

WriteJSON ==
    /\ req.op = "WriteJSON"
    /\ \E writeFails \in BOOLEAN :
       \E out \in {WriteJSONResult(req.w, req.status, req.data, req.headers,
                                   writeFails)} :
          last' = [op |-> "WriteJSON", w |-> out.w, err |-> out.err,
                   calls |-> out.calls]
    /\ UNCHANGED <<t, dirs, files, handles, req>>

ErrorJSON ==
    /\ req.op = "ErrorJSON"
    /\ \E writeFails \in BOOLEAN :
       \E out \in {ErrorJSONResult(req.w, req.err, req.status, writeFails)} :
          last' = [op |-> "ErrorJSON", w |-> out.w, err |-> out.err,
                   calls |-> out.calls]
    /\ UNCHANGED <<t, dirs, files, handles, req>>

(***************************************************************************)
(* Initial state and specifications.                                       *)
(***************************************************************************)
\* A call of RandomString: its argument and what rand.Reader yields to it.
RandomRequests ==
    {r \in [op : {"RandomString"}, n : 0..MaxRandomLen,
            rand : SeqsUpTo(PrimeResidues, MaxRandomLen)] : Len(r.rand) = r.n}

SlugRequests ==
    {[op |-> "Slugify", s |-> s] : s \in SeqsUpTo(SlugChars, MaxSlugLen)}

InitState ==
    /\ t \in Configs
    /\ dirs = [q \in {<<>>} |-> DirMode]
    /\ files = [q \in {<<"README">>} |-> <<"d">>]
    /\ handles = {}
    /\ last = [op |-> "none"]

\* The file parts of the requests: a PNG image, a JPEG image without an
\* extension, and an empty file.
FileHeaders ==
    { [Filename |-> <<"i", ".", "p", "n", "g">>, content |-> PNGFile],
      [Filename |-> <<"d", "o", "c">>, content |-> JPGFile],
      [Filename |-> <<"d", "o", "c">>, content |-> EmptyFile] }

UploadDirs == { <<"testdata", "uploads">>, <<"README">> }

\* A multipart request (well formed or not), the directory and the optional
\* rename flag.
UploadRequests ==
    {[op |-> "Upload", r |-> r, uploadDir |-> d, rename |-> rn] :
        r \in {[wellFormed |-> TRUE, parts |-> ps] :
                   ps \in SeqsUpTo(FileHeaders, MaxParts)}
               \cup {[wellFormed |-> FALSE, parts |-> <<>>]},
        d \in UploadDirs, rn \in {<<>>, <<TRUE>>, <<FALSE>>}}

NextUpload == UploadFiles \/ UploadOneFile \/ CreateDirIfNotExist

\* The paths handed to CreateDirIfNotExist: new directories with and without
\* missing parents, the root, a regular file and a path below it.
CreateDirRequests ==
    {[op |-> "CreateDir", path |-> p] :
        p \in {<<"testdata", "mydir">>, <<"testdata">>, <<>>,
               <<"testdata", "uploads", "a">>, <<"README">>,
               <<"README", "mydir">>}}

InitUpload == InitState /\ req \in UploadRequests \cup CreateDirRequests

SpecUpload == InitUpload /\ [][NextUpload]_vars

\* A request body, and whether the target is a pointer to decode into.
JSONRequests ==
    {[op |-> "ReadJSON", body |-> b, targetOK |-> ok] :
        b \in SeqsUpTo(JSONTokens, MaxBodyLen), ok \in BOOLEAN}

InitJSON == InitState /\ req \in JSONRequests

SpecJSON == InitJSON /\ [][ReadJSON]_vars

\* A push: the uri, the payload and the optional client.
PushRequests ==
    {[op |-> "PushJSONToRemote", uri |-> u, data |-> d, client |-> c] :
        u \in {"http://example.com/some/path", "http://remote/hook", "%zz"},
        d \in {"struct", "map", "chan"},
        c \in {<<>>, <<"custom">>}}

InitPush == InitState /\ req \in PushRequests

SpecPush == InitPush /\ [][PushJSONToRemote]_vars

\* The recorders handed to WriteJSON: new, or with a header a middleware set.
Recorders ==
    {[header |-> h, Code |-> 200, wroteHeader |-> FALSE,
      sent |-> [k \in {} |-> <<>>], Body |-> <<>>] :
        h \in {[k \in {} |-> <<>>],
               [k \in {"Foo"} |-> <<"OLD">>],
               [k \in {ContentType} |-> <<"text/html">>]}}

\* The optional extra headers: built with Add and Set, or as a map literal
\* with a key of its own spelling.
ExtraHeaders ==
    {<<>>, <<[k \in {} |-> <<>>]>>,
     <<[k \in {"Foo"} |-> <<"BAR">>]>>,
     <<[k \in {ContentType} |-> <<"text/html">>]>>,
     <<[k \in {"content-type"} |-> <<"text/html">>]>>,
     <<[k \in {"Foo", ContentType} |->
          IF k = "Foo" THEN <<"BAR">> ELSE <<"text/html">>]>>}

\* The payloads: JSONResponse values.
Payloads ==
    [Error : BOOLEAN, Message : {<<>>, <<"f", "o", "o">>, <<"<", "\"">>},
     Data : {"nil", "x", "chan"}]

WriteJSONRequests ==
    {[op |-> "WriteJSON", w |-> w, status |-> s, data |-> d, headers |-> h] :
        w \in Recorders, s \in {200, 201, 400, 503}, d \in Payloads,
        h \in ExtraHeaders}

ErrorJSONRequests ==
    {[op |-> "ErrorJSON", w |-> w, err |-> e, status |-> s] :
        w \in Recorders, e \in {<<"f", "o", "o">>, <<"<", "\"">>},
        s \in {<<>>, <<503>>}}

InitWriteJSON == InitState /\ req \in WriteJSONRequests \cup ErrorJSONRequests

SpecWriteJSON == InitWriteJSON /\ [][WriteJSON \/ ErrorJSON]_vars

Init ==
    /\ InitState
    /\ req \in UploadRequests \cup RandomRequests \cup SlugRequests
                \cup JSONRequests \cup PushRequests
                \cup WriteJSONRequests \cup ErrorJSONRequests \cup CreateDirRequests

Next ==
    \/ UploadFiles
    \/ UploadOneFile
    \/ CreateDirIfNotExist
    \/ RandomString
    \/ Slugify
    \/ ReadJSON
    \/ PushJSONToRemote
    \/ WriteJSON
    \/ ErrorJSON

Spec == Init /\ [][Next]_vars

InitRandom == InitState /\ req \in RandomRequests

SpecRandom == InitRandom /\ [][RandomString]_vars

InitSlug == InitState /\ req \in SlugRequests

SpecSlug == InitSlug /\ [][Slugify]_vars

(***************************************************************************)
(* Properties of the uploads.                                              *)
(***************************************************************************)
Last(s) == s[Len(s)]

\* C1: when the k-th part of an UploadFiles call fails, the call returns
\* the error together with the list of the k-1 files stored before it.
C1_PartialListReturned ==
    (last.op = "UploadFiles" /\ last.err # NoErr /\ Len(last.trace) >= 1) =>
        /\ Len(last.files) = Len(last.trace) - 1
        /\ \A i \in 1..Len(last.files) :
              /\ last.files[i].NewFileName = Last(last.trace[i].path)
              /\ last.files[i].OriginalFileName = last.trace[i].Filename

\* C2: no operation changes a field of the configuration.
C2_ConfigNeverMutated == [][t' = t]_vars

\* C3: UploadOneFile returns either the first file UploadFiles stored and a
\* nil error, or a nil file and an error; it never panics.
C3_UploadOneFileReturns ==
    last.op = "UploadOneFile" =>
        /\ last.outcome = "return"
        /\ \/ /\ last.err = NoErr
              /\ Len(last.files) = 1
              /\ last.files[1].NewFileName = Last(last.trace[1].path)
           \/ /\ last.err # NoErr
              /\ Len(last.files) = 0

\* The allow-list read as the claim reads it: the type matches an entry up
\* to the case of its letters.
MatchesAnEntry(allowedFileTypes, fileType) ==
    \E i \in 1..Len(allowedFileTypes) :
        FoldCase(allowedFileTypes[i]) = FoldCase(fileType)

\* The paths of the regular files a step creates or rewrites.
Written(before, after) ==
    {q \in DOMAIN after : q \notin DOMAIN before \/ after[q] # before[q]}

\* C4: in every UploadFiles call a part whose type was sniffed is rejected
\* as not permitted exactly when the allow-list is not empty and matches the
\* type in no entry, whatever the case; the call creates or writes a file
\* only for a part that passed the type check; and every part it stored,
\* and every file it returns, exists in the upload directory under its
\* NewFileName.
C4_TypeCheckGuardsStore ==
    [][ (last'.op = "UploadFiles") =>
          LET tr == last'.trace
          IN  /\ \A i \in 1..Len(tr) :
                    /\ (tr[i].err = ErrNotPermitted) <=>
                          /\ tr[i].fileType # ""
                          /\ Len(t.AllowedFileTypes) > 0
                          /\ ~MatchesAnEntry(t.AllowedFileTypes, tr[i].fileType)
                    /\ tr[i].err = NoErr => tr[i].path \in DOMAIN files'
              /\ \A q \in Written(files, files') :
                    \E i \in 1..Len(tr) :
                        /\ tr[i].path = q
                        /\ tr[i].err # ErrNotPermitted
                        /\ \/ Len(t.AllowedFileTypes) = 0
                           \/ MatchesAnEntry(t.AllowedFileTypes, tr[i].fileType)
              /\ \A i \in 1..Len(last'.files) :
                    Append(req.uploadDir, last'.files[i].NewFileName)
                        \in DOMAIN files'
      ]_vars

\* A call that stored a PNG image under an allow-list naming the type in
\* upper case, and then rejected a JPEG image.
C4_Witness ==
    /\ last.op = "UploadFiles"
    /\ t.AllowedFileTypes = <<"text/plain", "IMAGE/PNG">>
    /\ Len(last.trace) = 2
    /\ last.trace[1].err = NoErr
    /\ last.trace[1].fileType = "image/png"
    /\ last.trace[1].path \in DOMAIN files
    /\ last.trace[2].err = ErrNotPermitted
    /\ last.trace[2].fileType = "image/jpeg"

(***************************************************************************)
(* Properties of ReadJSON.                                                 *)
(***************************************************************************)
\* The limit in force: MaxJSONSize, or 1 MiB when it is zero.
EffectiveLimit(cfg) ==
    IF cfg.MaxJSONSize = 0 THEN DefaultMaxJSONSize ELSE cfg.MaxJSONSize

AllSpace(b, i, j) == \A k \in i..j : b[k] = "ws"

\* b[1..j] is one JSON value and the white space around it: an object of
\* at most one member, closed at j.
ValueEndsAt(b, j) ==
    /\ b[j] = "}"
    /\ \E i \in 1..(j - 1) :
          /\ b[i] = "{"
          /\ AllSpace(b, 1, i - 1)
          /\ \A k \in (i + 1)..(j - 1) : b[k] \in JSONMembers \cup {"ws"}
          /\ Cardinality({k \in (i + 1)..(j - 1) : b[k] # "ws"}) <= 1

\* The value b[1..j] decodes into the target under the configuration.
DecodesIntoTarget(b, j, cfg, targetOK) ==
    /\ targetOK
    /\ \A k \in 1..j : b[k] # "t"
    /\ \A k \in 1..j : b[k] = "u" => cfg.AllowUnknownFields

\* The first value of the body, read within the limit, decodes.
FirstValueDecodes(b, j, cfg, targetOK) ==
    /\ j <= EffectiveLimit(cfg)
    /\ ValueEndsAt(b, j)
    /\ DecodesIntoTarget(b, j, cfg, targetOK)

\* After b[1..j] the reader meets the end of the input and nothing else.
EndOfInputFollows(b, j, cfg) ==
    /\ AllSpace(b, j + 1, Len(b))
    /\ Len(b) <= EffectiveLimit(cfg)

\* C5: ReadJSON returns nil exactly when the body holds one JSON value that
\* decodes into the target, followed by white space only up to the end of
\* the input; when the first value decodes and anything else follows it (a
\* second value, other bytes, a read error), ReadJSON fails with 'body must
\* contain only one JSON value'.
C5_SingleDocument ==
    last.op = "ReadJSON" =>
        /\ (last.err = NoErr) <=>
              \E j \in 1..Len(req.body) :
                  /\ FirstValueDecodes(req.body, j, t, req.targetOK)
                  /\ EndOfInputFollows(req.body, j, t)
        /\ \A j \in 1..Len(req.body) :
              ( /\ FirstValueDecodes(req.body, j, t, req.targetOK)
                /\ ~EndOfInputFollows(req.body, j, t) )
              => last.err = ErrOneValue

\* Two values in one body, and a value followed by a read error.
C5_Witness ==
    /\ last.op = "ReadJSON"
    /\ last.err = ErrOneValue
    /\ \/ req.body = <<"{", "}", "{", "}">>
       \/ req.body = <<"{", "k", "}", "ws">> /\ t.MaxJSONSize = 3

\* C6: a body longer than the limit in force fails with 'body must not be
\* larger than <limit> bytes', whatever its first <limit> bytes are.
C6_OversizeIsSizeError ==
    (last.op = "ReadJSON" /\ Len(req.body) > EffectiveLimit(t)) =>
        /\ last.err = ErrTooLarge
        /\ last.limit = EffectiveLimit(t)

(***************************************************************************)
(* Properties of PushJSONToRemote.                                         *)
(***************************************************************************)
\* C7: a successful push returns the response with its body still open and
\* the response's status code; a failed one returns (nil, 0, err).
C7_BodyLeftOpen ==
    last.op = "PushJSONToRemote" =>
        IF last.err = NoErr
        THEN /\ Len(last.response) = 1
             /\ last.response[1].bodyOpen
             /\ last.status = last.response[1].StatusCode
        ELSE last.response = <<>> /\ last.status = 0

(***************************************************************************)
(* Properties of RandomString.                                             *)
(***************************************************************************)
\* The characters RandomString(n) can put at position i.
PossibleAt(n, i) == {RandomStringFrom(n, tape)[i] : tape \in RandomTapes(n)}

\* C8: at every position of RandomString(n) each of the 64 characters of
\* the alphabet is a possible outcome, and no other character is.
C8_WholeAlphabet ==
    (last.op = "RandomString" /\ req.n >= 1) =>
        /\ \A i \in 1..req.n : PossibleAt(req.n, i) = Range(randomStringSource)
        /\ Range(last.out) \subseteq Range(randomStringSource)

\* C9: RandomString(n) is a string of exactly n characters, and of n bytes,
\* for every n >= 0.
C9_ExactLength ==
    last.op = "RandomString" =>
        /\ Len(last.out) = req.n
        /\ UTF8Len(last.out) = req.n

\* A call for the longest string of the model, of differing characters.
C9_Witness ==
    /\ last.op = "RandomString"
    /\ req.n = MaxRandomLen
    /\ Len(last.out) = MaxRandomLen
    /\ last.out[1] # last.out[MaxRandomLen]

(***************************************************************************)
(* Properties of Slugify.                                                  *)
(***************************************************************************)
RECURSIVE Concat(_, _, _)
Concat(piece(_), i, n) ==
    IF i > n THEN <<>> ELSE piece(i) \o Concat(piece, i + 1, n)

\* The reference: the words of the lower-cased text (its maximal runs of
\* characters in [a-z0-9]) joined by single hyphens.
SlugReference(s) ==
    LET low == ToLower(s)
        inWord(i) == InClassAZ09(low[i])
        piece(i) ==
            IF ~inWord(i) THEN <<>>
            ELSE IF i > 1 /\ ~inWord(i - 1) /\ \E j \in 1..(i - 1) : inWord(j)
            THEN <<"-", low[i]>>
            ELSE <<low[i]>>
    IN  Concat(piece, 1, Len(s))

\* C10: Slugify agrees with the reference: the empty input fails as empty,
\* an input whose reference is empty fails as an empty result, and every
\* other input yields the reference; a slug is not empty, holds only
\* [a-z0-9-], has no hyphen at either end nor two in a row, and is its own
\* slug.
C10_SlugifyReference ==
    last.op = "Slugify" =>
        LET ref == SlugReference(req.s)
            slug == last.slug
        IN  /\ req.s = <<>> => last.err = ErrEmptyString
            /\ (req.s # <<>> /\ ref = <<>>) => last.err = ErrEmptySlug
            /\ ref # <<>> => (last.err = NoErr /\ slug = ref)
            /\ last.err = NoErr =>
                  /\ slug # <<>>
                  /\ \A i \in 1..Len(slug) : InClassAZ09(slug[i]) \/ slug[i] = "-"
                  /\ slug[1] # "-" /\ slug[Len(slug)] # "-"
                  /\ \A i \in 1..(Len(slug) - 1) :
                        ~(slug[i] = "-" /\ slug[i + 1] = "-")
                  /\ SlugifyResult(slug) = [slug |-> slug, err |-> NoErr]

\* A text whose run of two unsafe characters becomes one hyphen.
C10_Witness ==
    /\ last.op = "Slugify"
    /\ req.s = <<"B", "!", "-", "KELVIN">>
    /\ last.slug = <<"b", "-", "k">>
    /\ last.err = NoErr

(***************************************************************************)
(* Properties of WriteJSON.                                                *)
(***************************************************************************)
UnescapeRune(c) ==
    CASE c = "\\u003c" -> "<"
      [] c = "\\\"" -> "\""
      [] OTHER -> c

\* The string a JSON string literal stands for.
UnquoteString(val) == [i \in 1..(Len(val) - 2) |-> UnescapeRune(val[i + 1])]

\* json.Unmarshal of a body into a new JSONResponse.
DecodeJSONResponse(body) ==
    LET at(key) == {i \in 1..Len(body) : body[i].key = key}
        val(key) == body[CHOOSE i \in at(key) : TRUE].val
    IN  [Error |-> at("error") # {} /\ val("error") = <<"true">>,
         Message |-> IF at("message") # {} THEN UnquoteString(val("message"))
                     ELSE <<>>,
         Data |-> IF at("data") # {} THEN val("data")[2] ELSE "nil"]

\* C11: a WriteJSON that returns nil has applied the extra headers, then
\* set Content-Type, then written the status, then written the body; the
\* response has the status given, a body that decodes to the data, every
\* extra header as given, and Content-Type application/json whatever the
\* extra headers and the writer held for it.
C11_WriteJSONResponse ==
    (last.op = "WriteJSON" /\ last.err = NoErr) =>
        /\ last.calls = (IF Len(req.headers) > 0
                         THEN <<"Header[key] = value">> ELSE <<>>)
                        \o <<"Header.Set", "WriteHeader", "Write">>
        /\ last.w.Code = req.status
        /\ DecodeJSONResponse(last.w.Body) = req.data
        /\ HeaderGet(last.w.sent, ContentType) = ApplicationJSON
        /\ Len(req.headers) > 0 =>
              \A k \in DOMAIN req.headers[1] :
                 k # ContentType => last.w.sent[k] = req.headers[1][k]
        /\ \A k \in DOMAIN req.w.header :
              (k # ContentType /\ (Len(req.headers) > 0 => k \notin DOMAIN req.headers[1]))
                 => last.w.sent[k] = req.w.header[k]

C11_Witness ==
    /\ last.op = "WriteJSON" /\ last.err = NoErr
    /\ Len(req.headers) > 0 /\ DOMAIN req.headers[1] = {"Foo", ContentType}
    /\ req.w.header = [k \in {"Foo"} |-> <<"OLD">>]
    /\ req.data = [Error |-> TRUE, Message |-> <<"<", "\"">>, Data |-> "x"]
    /\ req.status = 201

(***************************************************************************)
(* Properties of the stored files.                                         *)
(***************************************************************************)
\* The rename flag in force for the request: true when omitted.
RenameInForce == IF Len(req.rename) > 0 THEN req.rename[1] ELSE TRUE

\* x is the extension of name: empty when the name has no dot, and from
\* its final dot on otherwise.
IsExtensionOf(x, name) ==
    \/ /\ x = <<>>
       /\ \A i \in 1..Len(name) : name[i] # "."
    \/ \E i \in 1..Len(name) :
          /\ name[i] = "."
          /\ \A j \in (i + 1)..Len(name) : name[j] # "."
          /\ x = SubSeq(name, i, Len(name))

\* name is what a part with this original filename is stored under.
IsStoredName(name, original) ==
    IF RenameInForce
    THEN /\ Len(name) >= RandomNameLen
         /\ \A i \in 1..RandomNameLen : name[i] \in Range(randomStringSource)
         /\ IsExtensionOf(SubSeq(name, RandomNameLen + 1, Len(name)), original)
    ELSE name = original

\* The parts of the last call that were stored.
StoredParts == {i \in 1..Len(last.trace) : last.trace[i].err = NoErr}

\* C12: every part that an upload stores is at the join of the upload
\* directory and its new name, which is 25 characters of the RandomString
\* alphabet followed by the extension of the original filename when
\* renaming (the default) and the original filename when not; the file
\* holds the whole content of the part unless a later part of the call
\* wrote to the same path; and the entry returned for it carries the
\* original filename, the new name and the length of the content.
C12_StoredFileNaming ==
    (last.op \in {"UploadFiles", "UploadOneFile"}) =>
        /\ \A i \in StoredParts :
              LET e == last.trace[i]
              IN  /\ e.path = Append(req.uploadDir, Last(e.path))
                  /\ IsStoredName(Last(e.path), e.Filename)
                  /\ e.path \in DOMAIN files
                  /\ (\A j \in (i + 1)..Len(last.trace) :
                         last.trace[j].path # e.path)
                        => files[e.path] = e.content
        /\ \A i \in 1..Len(last.files) :
              /\ i \in StoredParts
              /\ last.files[i].OriginalFileName = last.trace[i].Filename
              /\ last.files[i].NewFileName = Last(last.trace[i].path)
              /\ last.files[i].FileSize = Len(last.trace[i].content)

\* Both kinds of name were stored: a renamed part with an extension, and a
\* part larger than one token under its own name.
C12_Witness ==
    /\ last.op = "UploadFiles" /\ last.err = NoErr
    /\ Len(last.files) = 2
    /\ req.rename = <<>>
    /\ \E i \in 1..2 : /\ Len(last.files[i].NewFileName) = RandomNameLen + 4
                       /\ last.files[i].FileSize = 2
    /\ \E i \in 1..2 : Len(last.files[i].NewFileName) = RandomNameLen

(***************************************************************************)
(* Properties of CreateDirIfNotExist.                                      *)
(***************************************************************************)
\* A call of CreateDirIfNotExist on the path that returns nil changes
\* nothing, whatever the operating system would do on a mkdir.
SecondCallIsNoOp(ds, fl, path) ==
    \A mkdirFails \in BOOLEAN :
        CreateDirIfNotExistResult(ds, fl, path, mkdirFails)
            = [dirs |-> ds, err |-> NoErr]

\* C13: after a call that returned nil a second call on the path returns
\* nil and changes nothing; a call that returns nil on a path that did not
\* exist leaves a directory at the path, having created it and its missing
\* parents with mode 0755 and changed no other directory; a call on a path
\* that exists, directory or not, returns nil and changes nothing.
C13_CreateDirIdempotent ==
    [][last'.op = "CreateDirIfNotExist" =>
         /\ last'.err = NoErr => SecondCallIsNoOp(dirs', files', CreateDirPath)
         /\ (~Exists(dirs, files, CreateDirPath) /\ last'.err = NoErr) =>
               /\ CreateDirPath \in DOMAIN dirs'
               /\ DOMAIN dirs' = DOMAIN dirs \cup Prefixes(CreateDirPath)
               /\ \A q \in DOMAIN dirs' :
                     dirs'[q] = IF q \in DOMAIN dirs THEN dirs[q] ELSE DirMode
         /\ Exists(dirs, files, CreateDirPath) =>
               /\ last'.err = NoErr
               /\ dirs' = dirs
      ]_vars

(***************************************************************************)
(* Properties of the file handles.                                         *)
(***************************************************************************)
\* C14: an upload call leaves open no file handle that was not open before
\* it: every part's input and every destination file it created is closed
\* when the call returns, with or without an error.
C14_HandlesReleased ==
    [][last'.op \in {"UploadFiles", "UploadOneFile"} => handles' = handles]_vars

====
